---- MODULE Spec2Model ----
(***************************************************************************)
(* Model of the contour-based ASL letter recognition pipeline:             *)
(*   FingerDetector        (src/model/finger_detection.py)                 *)
(*   ASLLetterDetector     (src/model/asl_letter_detector.py)              *)
(*   SimpleASLDetector     (src/model/simple_asl_detector.py)              *)
(*                                                                         *)
(* Numbers.  A confidence is a Python float that is a multiple of 0.1, or  *)
(* the mean of a few of them.  It is modelled exactly as an integer number *)
(* of units of 1/4200 (Pct(70) is 0.7), so that the mean over a window of  *)
(* 5, 6 or 7 entries is again an integer.  A normalised tip coordinate     *)
(* x / width is modelled as the exact fraction <<x, width>>.               *)
(*                                                                         *)
(* Images.  An image is modelled by what OpenCV computes from it: its      *)
(* shape and the list of external contours of the cleaned skin mask, each  *)
(* contour with its area, its moments and its convex hull.                 *)
(***************************************************************************)
EXTENDS Integers, Sequences, FiniteSets, TLC

VARIABLES
    detection_history,  \* ASLLetterDetector.detection_history
    log,                \* history variable: the per-frame result of every detect_asl_letter call so far
    op,                 \* the operation that completed last
    ret,                \* the value it returned
    fingers,            \* what detect_fingers computed and returned in that operation
    args,               \* the arguments of that operation when it is a direct call of a
                        \* helper or of an entry point of the backend, else the arguments
                        \* _classify_by_finger_count got in it
    callers,            \* for each thread that calls detect_asl_letter on the shared
                        \* detector: where it stands in the call, and its locals
    fields,             \* the other attributes of ASLLetterDetector and of its FingerDetector
    padding,            \* a call of ImprovedHandDetector._extract_finger_landmarks that has
                        \* reached its while loop: the landmarks so far
    twin                \* a second ASLLetterDetector, fed its own frames: its window, the
                        \* per-frame results of its calls, and what its last call returned

vars == <<detection_history, log, op, ret, fingers, args, callers, fields, padding, twin>>

(***************************************************************************)
(* Bounds of the model                                                     *)
(***************************************************************************)
MaxCalls == 6           \* detect_asl_letter calls in one behaviour
CountSlack == 2         \* direct classifier calls take finger_count in -CountSlack .. 5 + CountSlack
MaxPoints == 2          \* longest tip list passed to the classifier directly
MaxDefects == 2         \* longest mixed list of convexity defects of a contour
MaxConcCalls == 7       \* detect_asl_letter calls of the threads of one behaviour, together
MaxStream == 4          \* frames of a stream after its window has filled
MaxTwinCalls == 6       \* detect_asl_letter calls of each of two detectors run side by side

(***************************************************************************)
(* Program constants                                                       *)
(***************************************************************************)
stable_frames == 5
min_contour_area == 5000
max_contour_area == 50000
TipDistance == 50
MaxFingers == 5

None == "None"

Pct(p) == p * 42

min_confidence == Pct(60)

\* a fraction <<n, d>> with d > 0
Frac(n, d) == <<n, d>>
FracLess(a, b) == a[1] * b[2] < b[1] * a[2]

(***************************************************************************)
(* ASLLetterDetector._distinguish_a_or_d and _classify_by_finger_count     *)
(***************************************************************************)
\* variant: the boundary x = 0.4 counted as the thumb side
DistinguishAOrDInclusive(finger_points) ==
    IF finger_points = <<>>
    THEN <<"A", Pct(50)>>
    ELSE LET finger_x == finger_points[1][1]
         IN  IF ~FracLess(Frac(4, 10), finger_x)
             THEN <<"A", Pct(70)>>
             ELSE <<"D", Pct(70)>>

DistinguishAOrD(finger_points) ==
    IF finger_points = <<>>
    THEN <<"A", Pct(50)>>
    ELSE LET finger_x == finger_points[1][1]
         IN  IF FracLess(finger_x, Frac(4, 10))
             THEN <<"A", Pct(70)>>
             ELSE <<"D", Pct(70)>>

\* variant: the curved-hand band reported with one confidence
ClassifyFlatBand(finger_count, finger_points) ==
    CASE finger_count = 0 -> <<"E", Pct(80)>>
      [] finger_count = 1 -> DistinguishAOrD(finger_points)
      [] finger_count \in 2..4 -> <<"C", Pct(60)>>
      [] finger_count = 5 -> <<"B", Pct(80)>>
      [] OTHER -> <<"Unknown", 0>>

\* variant: every count from 5 up taken for an open hand
ClassifyClamped(finger_count, finger_points) ==
    CASE finger_count = 0 -> <<"E", Pct(80)>>
      [] finger_count = 1 -> DistinguishAOrD(finger_points)
      [] finger_count = 2 -> <<"C", Pct(60)>>
      [] finger_count = 3 -> <<"C", Pct(70)>>
      [] finger_count = 4 -> <<"C", Pct(60)>>
      [] finger_count >= 5 -> <<"B", Pct(80)>>
      [] OTHER -> <<"Unknown", 0>>

ClassifyByFingerCount(finger_count, finger_points) ==
    CASE finger_count = 0 -> <<"E", Pct(80)>>
      [] finger_count = 1 -> DistinguishAOrD(finger_points)
      [] finger_count = 2 -> <<"C", Pct(60)>>
      [] finger_count = 3 -> <<"C", Pct(70)>>
      [] finger_count = 4 -> <<"C", Pct(60)>>
      [] finger_count = 5 -> <<"B", Pct(80)>>
      [] OTHER -> <<"Unknown", 0>>

(***************************************************************************)
(* ASLLetterDetector._get_stable_detection                                 *)
(***************************************************************************)
RECURSIVE TotalConfidence(_)
TotalConfidence(h) ==
    IF h = <<>> THEN 0 ELSE h[1][2] + TotalConfidence(Tail(h))

LetterCount(h, letter) == Cardinality({i \in 1..Len(h) : h[i][1] = letter})

\* max(letter_counts, key=letter_counts.get): the first key, in insertion
\* order, whose count is maximal
MostCommonLetter(h) ==
    LET first == CHOOSE i \in 1..Len(h) :
                    /\ \A j \in 1..Len(h) : LetterCount(h, h[j][1]) <= LetterCount(h, h[i][1])
                    /\ \A j \in 1..(i - 1) : LetterCount(h, h[j][1]) < LetterCount(h, h[i][1])
    IN  h[first][1]

\* variant: the 60% threshold taken strictly
GetStableDetectionStrict(h) ==
    IF Len(h) < stable_frames
    THEN <<None, 0>>
    ELSE LET most_common_letter == MostCommonLetter(h)
             most_common_count == LetterCount(h, most_common_letter)
         IN  IF most_common_count * 10 > stable_frames * 6
             THEN <<most_common_letter, TotalConfidence(h) \div Len(h)>>
             ELSE <<None, 0>>

\* variant: the window taken as full one entry early
GetStableDetectionEarly(h) ==
    IF Len(h) < stable_frames - 1
    THEN <<None, 0>>
    ELSE LET most_common_letter == MostCommonLetter(h)
             most_common_count == LetterCount(h, most_common_letter)
         IN  IF most_common_count * 10 >= stable_frames * 6
             THEN <<most_common_letter, TotalConfidence(h) \div Len(h)>>
             ELSE <<None, 0>>

\* variant: the confidence averaged over the entries of the winning letter
GetStableDetectionWinnerMean(h) ==
    IF Len(h) < stable_frames
    THEN <<None, 0>>
    ELSE LET most_common_letter == MostCommonLetter(h)
             most_common_count == LetterCount(h, most_common_letter)
             winners == SelectSeq(h, LAMBDA e : e[1] = most_common_letter)
         IN  IF most_common_count * 10 >= stable_frames * 6
             THEN <<most_common_letter, TotalConfidence(winners) \div Len(winners)>>
             ELSE <<None, 0>>

\* variant: no debouncing, the letter of the newest frame once the window is full
GetStableDetectionLatest(h) ==
    IF Len(h) < stable_frames
    THEN <<None, 0>>
    ELSE <<h[Len(h)][1], TotalConfidence(h) \div Len(h)>>

GetStableDetection(h) ==
    IF Len(h) < stable_frames
    THEN <<None, 0>>
    ELSE LET most_common_letter == MostCommonLetter(h)
             most_common_count == LetterCount(h, most_common_letter)
         IN  IF most_common_count * 10 >= stable_frames * 6
             THEN <<most_common_letter, TotalConfidence(h) \div Len(h)>>
             ELSE <<None, 0>>

(***************************************************************************)
(* The confidence of _get_stable_detection as the double it is computed    *)
(* in. GetStableDetection above gives the mean in exact arithmetic; here   *)
(* total_confidence += confidence and total_confidence / len(...) round    *)
(* as IEEE 754 binary64 does (to nearest, ties to even).                   *)
(* A double is held as <<hi, lo>>, standing for hi * 2^28 + lo units of    *)
(* 2^-53, which is how doubles from 0.5 to 1 are spaced.                   *)
(***************************************************************************)
Limb == 2 ^ 28

FloatZero == <<0, 0>>

\* the doubles of the literals 0.5, 0.6, 0.7 and 0.8 (their 53-bit
\* significands 0x10000000000000, 0x13333333333333, 0x16666666666666 and
\* 0x1999999999999a)
FloatOf(confidence) ==
    CASE confidence = Pct(50) -> <<16777216, 0>>
      [] confidence = Pct(60) -> <<20132659, 53687091>>
      [] confidence = Pct(70) -> <<23488102, 107374182>>
      [] confidence = Pct(80) -> <<26843545, 161061274>>
      [] confidence = 0 -> FloatZero

\* the distance, in units, between neighbouring doubles at hi * 2^28: one
\* unit below 1, two from 1 to 2, four from 2 to 4, eight from 4 to 8
Spacing(hi) ==
    IF hi >= 2 ^ 27 THEN 8
    ELSE IF hi >= 2 ^ 26 THEN 4
    ELSE IF hi >= 2 ^ 25 THEN 2
    ELSE 1

\* the nearest multiple of `step` to n, the even one of two equally near
RoundHalfEven(n, step) ==
    LET r == n % step
        down == n - r
    IN  IF 2 * r < step THEN down
        ELSE IF 2 * r > step THEN down + step
        ELSE IF (down \div step) % 2 = 0 THEN down
        ELSE down + step

Carry(hi, lo) == <<hi + lo \div Limb, lo % Limb>>

\* a + b
FloatAdd(a, b) ==
    LET exact == Carry(a[1] + b[1], a[2] + b[2])
    IN  Carry(exact[1], RoundHalfEven(exact[2], Spacing(exact[1])))

\* total / n for a quotient from 0.5 to 1, which a mean of confidences from
\* 0.5 to 1 is
FloatDiv(total, n) ==
    LET rest == (total[1] % n) * Limb + total[2]
        r == rest % n
        down == rest \div n
        q == IF 2 * r < n THEN down
             ELSE IF 2 * r > n THEN down + 1
             ELSE IF down % 2 = 0 THEN down
             ELSE down + 1
    IN  Carry(total[1] \div n, q)

RECURSIVE FloatTotalFrom(_, _)
\* the loop: total_confidence += confidence for each entry in turn
FloatTotalFrom(total_confidence, h) ==
    IF h = <<>> THEN total_confidence
    ELSE FloatTotalFrom(FloatAdd(total_confidence, FloatOf(h[1][2])), Tail(h))

\* b - a in units, for doubles less than 2^28 units apart
FloatGap(a, b) == (b[1] - a[1]) * Limb + (b[2] - a[2])

\* variant: the first key of letter_counts taken for the most common letter
MostCommonFirstKey(h) == h[1][1]

\* the most common letter, as in GetStableDetection
MostCommon(h) == MostCommonLetter(h)

\* _get_stable_detection with the confidence as a double
FloatStableDetection(h) ==
    IF Len(h) < stable_frames
    THEN <<None, FloatZero>>
    ELSE LET most_common_letter == MostCommon(h)
             most_common_count == LetterCount(h, most_common_letter)
         IN  IF most_common_count * 10 >= stable_frames * 6
             THEN <<most_common_letter, FloatDiv(FloatTotalFrom(FloatZero, h), Len(h))>>
             ELSE <<None, FloatZero>>

(***************************************************************************)
(* FingerDetector                                                          *)
(***************************************************************************)
RECURSIVE SelectTips(_, _, _, _)
\* the loop over the hull: a vertex far from the centre and above it is kept,
\* normalised by the image shape (rows, columns)
SelectTips(hull, center_x, center_y, image_shape) ==
    IF hull = <<>> THEN <<>>
    ELSE LET x == hull[1][1]
             y == hull[1][2]
             distance2 == (x - center_x) * (x - center_x) + (y - center_y) * (y - center_y)
             rest == SelectTips(Tail(hull), center_x, center_y, image_shape)
         IN  IF distance2 > TipDistance * TipDistance /\ y < center_y
             THEN <<<<Frac(x, image_shape[2]), Frac(y, image_shape[1]), 0>>>> \o rest
             ELSE rest

RECURSIVE InsertByX(_, _)
\* p goes after every entry whose x is not greater (list.sort is stable)
InsertByX(p, sorted) ==
    IF sorted = <<>> THEN <<p>>
    ELSE IF FracLess(p[1], sorted[1][1])
         THEN <<p>> \o sorted
         ELSE <<sorted[1]>> \o InsertByX(p, Tail(sorted))

RECURSIVE SortByX(_)
SortByX(tips) ==
    IF tips = <<>> THEN <<>>
    ELSE InsertByX(tips[Len(tips)], SortByX(SubSeq(tips, 1, Len(tips) - 1)))

Take(s, n) == SubSeq(s, 1, IF Len(s) < n THEN Len(s) ELSE n)

RECURSIVE SelectTipsInclusive(_, _, _, _)
\* variant of the loop: a vertex at the threshold distance is kept too
SelectTipsInclusive(hull, center_x, center_y, image_shape) ==
    IF hull = <<>> THEN <<>>
    ELSE LET x == hull[1][1]
             y == hull[1][2]
             distance2 == (x - center_x) * (x - center_x) + (y - center_y) * (y - center_y)
             rest == SelectTipsInclusive(Tail(hull), center_x, center_y, image_shape)
         IN  IF distance2 >= TipDistance * TipDistance /\ y < center_y
             THEN <<<<Frac(x, image_shape[2]), Frac(y, image_shape[1]), 0>>>> \o rest
             ELSE rest

\* variant: distance > 50 written as distance >= 50
QualifyingTipsInclusive(contour, image_shape) ==
    IF contour.m00 = 0
    THEN <<>>
    ELSE LET center_x == contour.m10 \div contour.m00
             center_y == contour.m01 \div contour.m00
         IN  SelectTipsInclusive(contour.hull, center_x, center_y, image_shape)

\* finger_tips as the loop over the hull leaves it, before it is sorted and cut
QualifyingTips(contour, image_shape) ==
    IF contour.m00 = 0
    THEN <<>>
    ELSE LET center_x == contour.m10 \div contour.m00
             center_y == contour.m01 \div contour.m00
         IN  SelectTips(contour.hull, center_x, center_y, image_shape)

\* variant: the list cut at four entries
FindFingerTipsFour(contour, image_shape) ==
    IF contour.m00 = 0
    THEN <<>>
    ELSE Take(SortByX(QualifyingTips(contour, image_shape)), MaxFingers - 1)

\* variant: the list cut without being sorted
FindFingerTipsUnsorted(contour, image_shape) ==
    IF contour.m00 = 0
    THEN <<>>
    ELSE Take(QualifyingTips(contour, image_shape), MaxFingers)

\* variant: the sorted list returned whole
FindFingerTipsUncut(contour, image_shape) ==
    IF contour.m00 = 0
    THEN <<>>
    ELSE SortByX(QualifyingTips(contour, image_shape))

\* variant: the centre of the image taken for the centre of a contour
\* that has none
FindFingerTipsCentred(contour, image_shape) ==
    IF contour.m00 = 0
    THEN Take(SortByX(SelectTips(contour.hull, image_shape[2] \div 2,
                                 image_shape[1] \div 2, image_shape)), MaxFingers)
    ELSE Take(SortByX(QualifyingTips(contour, image_shape)), MaxFingers)

FindFingerTips(contour, image_shape) ==
    IF contour.m00 = 0
    THEN <<>>
    ELSE Take(SortByX(QualifyingTips(contour, image_shape)), MaxFingers)

\* cv2.cvtColor(image, cv2.COLOR_BGR2HSV) takes a non-empty array of 3 or 4
\* channels and raises cv2.error on anything else
Convertible(image) ==
    /\ Len(image.shape) = 3
    /\ image.shape[1] > 0
    /\ image.shape[2] > 0
    /\ image.shape[3] \in {3, 4}

\* max(contours, key=cv2.contourArea): the first contour of maximal area
HandContour(contours) ==
    LET first == CHOOSE i \in 1..Len(contours) :
                    /\ \A j \in 1..Len(contours) : contours[j].area <= contours[i].area
                    /\ \A j \in 1..(i - 1) : contours[j].area < contours[i].area
    IN  contours[first]

\* detect_fingers: what it returns (detected, points) and, for reference,
\* where it ended (stage: "raised" when cvtColor raised and nothing is
\* returned), the area of the hand contour (0 before there is one), what
\* _find_finger_tips returned (tips) and how many vertices qualified
DetectFingers(image) ==
    IF ~Convertible(image)
    THEN [detected |-> FALSE, points |-> None, stage |-> "raised",
          tips |-> <<>>, area |-> 0, qualifying |-> 0]
    ELSE IF image.contours = <<>>
    THEN [detected |-> FALSE, points |-> None, stage |-> "no_contours",
          tips |-> <<>>, area |-> 0, qualifying |-> 0]
    ELSE LET hand_contour == HandContour(image.contours)
             area == hand_contour.area
         IN  IF area < min_contour_area
             THEN [detected |-> FALSE, points |-> None, stage |-> "small_area",
                   tips |-> <<>>, area |-> area, qualifying |-> 0]
             ELSE LET finger_points == FindFingerTips(hand_contour, image.shape)
                      qualifying == Len(QualifyingTips(hand_contour, image.shape))
                  IN  IF Len(finger_points) >= 3
                      THEN [detected |-> TRUE, points |-> finger_points, stage |-> "tips",
                            tips |-> finger_points, area |-> area, qualifying |-> qualifying]
                      ELSE [detected |-> FALSE, points |-> None, stage |-> "tips",
                            tips |-> finger_points, area |-> area, qualifying |-> qualifying]

(***************************************************************************)
(* ASLLetterDetector.detect_asl_letter                                     *)
(***************************************************************************)
\* variant: no detection reported as no letter
PerFrameNoHand(f) ==
    IF ~f.detected
    THEN <<None, 0>>
    ELSE ClassifyByFingerCount(Len(f.points), f.points)

\* variant: no detection read as a fist with the confidence of the table
PerFrameFistConfident(f) ==
    IF ~f.detected
    THEN <<"E", Pct(80)>>
    ELSE ClassifyByFingerCount(Len(f.points), f.points)

\* the per-frame classification, from what detect_fingers returned
PerFrame(f) ==
    IF ~f.detected
    THEN <<"E", Pct(70)>>
    ELSE ClassifyByFingerCount(Len(f.points), f.points)

\* variant: an entry dropped as soon as the window is full
PushHistoryEager(history, result) ==
    LET appended == Append(history, result)
    IN  IF Len(appended) >= stable_frames THEN Tail(appended) ELSE appended

\* variant: pop() in place of pop(0), dropping the newest entry
PushHistoryDropNewest(history, result) ==
    LET appended == Append(history, result)
    IN  IF Len(appended) > stable_frames
        THEN SubSeq(appended, 1, Len(appended) - 1)
        ELSE appended

\* variant: the window restarted when it overflows
PushHistoryRestart(history, result) ==
    LET appended == Append(history, result)
    IN  IF Len(appended) > stable_frames THEN <<result>> ELSE appended

\* variant: the newest entry put in place of the second-oldest, the oldest kept
PushHistoryKeepOldest(history, result) ==
    LET appended == Append(history, result)
    IN  IF Len(appended) > stable_frames
        THEN <<Head(appended)>> \o SubSeq(appended, 3, Len(appended))
        ELSE appended

\* append, then drop the oldest entry when the window is over-full
PushHistory(history, result) ==
    LET appended == Append(history, result)
    IN  IF Len(appended) > stable_frames THEN Tail(appended) ELSE appended

(***************************************************************************)
(* SimpleASLDetector.detect_letter                                         *)
(***************************************************************************)
\* variant: the per-frame result of ASLLetterDetector, no-fingers case included
SimpleDetectPerFrame(f) == <<PerFrame(f)[1], PerFrame(f)[2], "">>

SimpleDetect(f) ==
    IF ~f.detected
    THEN <<"E", Pct(80), "Fist (no fingers)">>
    ELSE LET finger_count == Len(f.points)
         IN  CASE finger_count = 1 ->
                    IF FracLess(f.points[1][1], Frac(4, 10))
                    THEN <<"A", Pct(70), "Thumb out">>
                    ELSE <<"D", Pct(70), "Index finger up">>
               [] finger_count = 2 -> <<"C", Pct(60), "Curved hand (2 fingers)">>
               [] finger_count = 3 -> <<"C", Pct(70), "Curved hand (3 fingers)">>
               [] finger_count = 4 -> <<"C", Pct(60), "Curved hand (4 fingers)">>
               [] finger_count = 5 -> <<"B", Pct(80), "Open hand (5 fingers)">>
               [] OTHER -> <<"Unknown", 0, "Detected fingers">>

(***************************************************************************)
(* Inputs                                                                  *)
(***************************************************************************)
\* image.shape of a 640 x 480 BGR camera frame: (rows, columns, channels)
ImageShape == <<480, 640, 3>>

\* Hull vertices in the cyclic order cv2.convexHull lists them, around a
\* contour whose centroid is (320, 240): seven vertices on the upper arc of
\* a circle of radius 200, two level with the centroid, three below it.
Cycle ==
    << <<520, 240>>, <<480, 120>>, <<440, 80>>, <<376, 48>>, <<320, 40>>,
       <<264, 48>>, <<200, 80>>, <<160, 120>>, <<120, 240>>,
       <<200, 400>>, <<320, 440>>, <<440, 400>> >>

UpperArc == { Cycle[i] : i \in 2..8 }

\* the order in which upper vertices are added to the hulls below
UpperOrder ==
    << <<376, 48>>, <<160, 120>>, <<480, 120>>, <<320, 40>>,
       <<200, 80>>, <<440, 80>>, <<264, 48>> >>

OnHull(p, k) == p \notin UpperArc \/ \E i \in 1..k : UpperOrder[i] = p

RECURSIVE Keep(_, _)
Keep(cycle, k) ==
    IF cycle = <<>> THEN <<>>
    ELSE IF OnHull(cycle[1], k)
         THEN <<cycle[1]>> \o Keep(Tail(cycle), k)
         ELSE Keep(Tail(cycle), k)

\* a kite whose top vertex is `top` pixels above the centroid
Kite(top) == << <<520, 240>>, <<320, 240 - top>>, <<120, 240>>, <<320, 440>> >>

Hulls == { Keep(Cycle, k) : k \in 0..Len(UpperOrder) }
            \cup { Kite(TipDistance), Kite(TipDistance + 1) }

Areas == { 1, min_contour_area - 1, min_contour_area, 20000, max_contour_area + 1 }

\* cv2.moments of a contour: m00 is its area, and the centroid (320.5, 240.25)
\* is truncated to (320, 240) by int()
Contour(area, hull) ==
    [area |-> area, m00 |-> area,
     m10 |-> 320 * area + area \div 2,
     m01 |-> 240 * area + area \div 4,
     hull |-> hull]

Contours == { Contour(a, h) : a \in Areas, h \in Hulls }

\* a speck of the mask that survived the morphological opening
Speck == Contour(4, << <<10, 10>>, <<12, 10>>, <<12, 12>>, <<10, 12>> >>)

Image(contours) == [shape |-> ImageShape, contours |-> contours]

\* frames with one contour, and frames where a speck precedes or follows
\* the contour of a hand showing three tips
Frames ==
    { Image(<<>>), Image(<<Speck>>), Image(<<Speck, Speck>>) }
        \cup { Image(<<c>>) : c \in Contours }
        \cup { Image(<<Speck, Contour(a, Keep(Cycle, 3))>>) : a \in Areas }
        \cup { Image(<<Contour(a, Keep(Cycle, 3)), Speck>>) : a \in Areas }

\* what a caller can pass that is no frame: None, an empty array, and a
\* single-channel (grey) array
Malformed ==
    { [shape |-> <<>>, contours |-> <<>>],
      [shape |-> <<0, 0, 3>>, contours |-> <<>>],
      [shape |-> <<480, 640>>, contours |-> <<>>] }

\* detect_fingers on every frame and on every malformed input
Detected == [image \in Frames \cup Malformed |-> DetectFingers(image)]

\* Contours handed to _find_finger_tips directly: every choice of upper
\* vertices on the circle, the two kites, a box with two vertical sides, and
\* contours without area (a single point, a horizontal and a vertical
\* segment), for which cv2.moments gives m00 = 0
HullWith(upper) == SelectSeq(Cycle, LAMBDA p : p \notin UpperArc \/ p \in upper)

Box == << <<520, 200>>, <<520, 100>>, <<120, 100>>, <<120, 200>>, <<320, 440>> >>

Degenerate(hull) == [area |-> 0, m00 |-> 0, m10 |-> 0, m01 |-> 0, hull |-> hull]

TipContours ==
    { Contour(20000, HullWith(upper)) : upper \in SUBSET UpperArc }
        \cup { Contour(20000, h) : h \in { Kite(TipDistance), Kite(TipDistance + 1), Box } }
        \cup { Degenerate(h) : h \in { << <<100, 100>> >>,
                                       << <<100, 100>>, <<300, 100>> >>,
                                       << <<100, 100>>, <<100, 300>> >> } }

\* tip lists handed to the classifier directly
TipXs == { Frac(1, 10), Frac(399, 1000), Frac(4, 10), Frac(401, 1000), Frac(9, 10) }
Tips == { <<x, Frac(1, 2), 0>> : x \in TipXs }
TipLists == UNION { [1..n -> Tips] : n \in 0..MaxPoints }
Counts == (0 - CountSlack)..(MaxFingers + CountSlack)

(***************************************************************************)
(* State machine                                                           *)
(***************************************************************************)
NoFingers ==
    [detected |-> FALSE, points |-> None, stage |-> "none",
     tips |-> <<>>, area |-> 0, qualifying |-> 0]

\* the operation ended with the exception cv2.cvtColor raised
Raised == <<"raise", "cv2.error">>

\* a detector after __init__, before its first call
Fresh == [detection_history |-> <<>>, log |-> <<>>, ret |-> <<None, 0>>]

\* no call stands in the while loop of _extract_finger_landmarks
NotPadding == [pc |-> "idle", caller |-> "", found |-> <<>>, landmarks |-> <<>>]

\* the attributes __init__ sets, apart from the window; letter_patterns by
\* its finger counts
Constructed ==
    [letter_patterns |-> [A |-> 1, B |-> 5, C |-> 3, D |-> 1, E |-> 0],
     min_confidence |-> min_confidence,
     stable_frames |-> stable_frames,
     current_letter |-> None,
     confidence |-> 0,
     min_contour_area |-> min_contour_area,
     max_contour_area |-> max_contour_area]

\* variant: the stable detection kept in current_letter and confidence
FieldsAfterDetectStored(attributes, stable) ==
    [attributes EXCEPT !.current_letter = stable[1], !.confidence = stable[2]]

\* the attributes after detect_asl_letter: the stable detection goes to the
\* caller, and no attribute is assigned
FieldsAfterDetect(attributes, stable) == attributes

\* the threads that share one detector
Callers == {"caller1", "caller2"}

\* a thread outside detect_asl_letter
Idle == [pc |-> "idle", seen |-> <<>>, ret |-> <<None, 0>>]

Init ==
    /\ detection_history = <<>>
    /\ log = <<>>
    /\ op = "init"
    /\ ret = <<>>
    /\ fingers = NoFingers
    /\ args = <<>>
    /\ callers = [t \in Callers |-> Idle]
    /\ fields = Constructed
    /\ padding = NotPadding
    /\ twin = Fresh

\* detect_asl_letter; an exception of detect_fingers leaves through it
\* before anything is appended
DetectAslLetterBody(image) ==
    /\ LET f == Detected[image]
           result == PerFrame(f)
           history == PushHistory(detection_history, result)
       IN  /\ fingers' = f
           /\ IF f.stage = "raised"
              THEN /\ ret' = Raised
                   /\ args' = <<>>
                   /\ UNCHANGED <<detection_history, log>>
              ELSE /\ args' = IF f.detected THEN <<Len(f.points), f.points>> ELSE <<>>
                   /\ log' = Append(log, result)
                   /\ detection_history' = history
                   /\ ret' = GetStableDetection(history)
    /\ op' = "detect_asl_letter"
    /\ fields' = FieldsAfterDetect(fields, ret')
    /\ UNCHANGED <<callers, padding>>

\* a call of detect_asl_letter on the one detector
DetectAslLetter(image) ==
    /\ Len(log) < MaxCalls
    /\ DetectAslLetterBody(image)
    /\ UNCHANGED twin

\* a direct call of ASLLetterDetector._classify_by_finger_count
Classify(finger_count, finger_points) ==
    /\ args' = <<finger_count, finger_points>>
    /\ ret' = ClassifyByFingerCount(finger_count, finger_points)
    /\ op' = "_classify_by_finger_count"
    /\ fingers' = NoFingers
    /\ UNCHANGED <<detection_history, log, callers, fields, padding, twin>>

DetectLetter(image) ==
    /\ fingers' = Detected[image]
    /\ ret' = IF fingers'.stage = "raised" THEN Raised ELSE SimpleDetect(fingers')
    /\ op' = "detect_letter"
    /\ args' = <<>>
    /\ UNCHANGED <<detection_history, log, callers, fields, padding, twin>>

\* a direct call of FingerDetector._find_finger_tips
FindTips(contour) ==
    /\ args' = <<contour, ImageShape>>
    /\ ret' = FindFingerTips(contour, ImageShape)
    /\ op' = "_find_finger_tips"
    /\ fingers' = NoFingers
    /\ UNCHANGED <<detection_history, log, callers, fields, padding, twin>>

\* a direct call of FingerDetector.detect_fingers
DetectFingersCall(image) ==
    /\ args' = <<image>>
    /\ fingers' = Detected[image]
    /\ ret' = IF fingers'.stage = "raised" THEN Raised
              ELSE <<fingers'.detected, fingers'.points>>
    /\ op' = "detect_fingers"
    /\ UNCHANGED <<detection_history, log, callers, fields, padding, twin>>

Next == \E image \in Frames : DetectAslLetter(image)

Spec == Init /\ [][Next]_vars

NextClassify ==
    \/ \E finger_count \in Counts, finger_points \in TipLists :
            Classify(finger_count, finger_points)
    \/ \E image \in Frames : DetectLetter(image)

SpecClassify == Init /\ [][NextClassify]_vars

\* the finger detector called directly, and both detectors given malformed
\* input
NextFingers ==
    \/ \E contour \in TipContours : FindTips(contour)
    \/ \E image \in Frames \cup Malformed : DetectFingersCall(image)
    \/ \E image \in Malformed : DetectAslLetter(image)

SpecFingers == Init /\ [][NextFingers]_vars

(***************************************************************************)
(* detect_asl_letter called by two threads on one ASLLetterDetector.       *)
(* A step is one access to self.detection_history; what a thread computes  *)
(* on its own locals goes with the access that follows it.                 *)
(***************************************************************************)
\* variant: the window let grow one entry further before the oldest is dropped
WindowOverFullLate(history) == Len(history) > stable_frames + 1

\* len(self.detection_history) > self.stable_frames
WindowOverFull(history) == Len(history) > stable_frames

\* the result of _get_stable_detection from the entries its loop read and
\* the length it read for the average
StableOver(seen, length) ==
    LET most_common_letter == MostCommonLetter(seen)
        most_common_count == LetterCount(seen, most_common_letter)
    IN  IF most_common_count * 10 >= stable_frames * 6
        THEN <<most_common_letter, TotalConfidence(seen) \div length>>
        ELSE <<None, 0>>

\* the frames of the two sources: no hand, and an open hand
SourceFrames == { Image(<<>>), Image(<<Contour(20000, Keep(Cycle, 5))>>) }

At(t, pc) == callers[t].pc = pc

Goto(t, pc) == callers' = [callers EXCEPT ![t].pc = pc]

\* detect_fingers and the classification, which read no shared state, and
\* self.detection_history.append
CallerAppend(t, image) ==
    /\ At(t, "idle")
    /\ Len(log) < MaxConcCalls
    /\ LET result == PerFrame(Detected[image])
       IN  /\ detection_history' = Append(detection_history, result)
           /\ log' = Append(log, result)
    /\ callers' = [callers EXCEPT ![t] = [pc |-> "check", seen |-> <<>>, ret |-> <<None, 0>>]]
    /\ UNCHANGED <<op, ret, fingers, args, fields, padding, twin>>

\* if len(self.detection_history) > self.stable_frames
CallerCheck(t) ==
    /\ At(t, "check")
    /\ Goto(t, IF WindowOverFull(detection_history) THEN "pop" ELSE "stable")
    /\ UNCHANGED <<detection_history, log, op, ret, fingers, args, fields, padding, twin>>

\* self.detection_history.pop(0)
CallerPop(t) ==
    /\ At(t, "pop")
    /\ detection_history' = Tail(detection_history)
    /\ Goto(t, "stable")
    /\ UNCHANGED <<log, op, ret, fingers, args, fields, padding, twin>>

\* _get_stable_detection: if len(self.detection_history) < self.stable_frames
CallerStable(t) ==
    /\ At(t, "stable")
    /\ IF Len(detection_history) < stable_frames
       THEN callers' = [callers EXCEPT ![t].pc = "idle", ![t].ret = <<None, 0>>]
       ELSE Goto(t, "iter")
    /\ UNCHANGED <<detection_history, log, op, ret, fingers, args, fields, padding, twin>>

\* one step of the iterator of the for loop: the next entry, or the end of
\* the list
CallerIter(t) ==
    /\ At(t, "iter")
    /\ LET i == Len(callers[t].seen)
       IN  IF i < Len(detection_history)
           THEN callers' = [callers EXCEPT ![t].seen = Append(@, detection_history[i + 1])]
           ELSE Goto(t, "average")
    /\ UNCHANGED <<detection_history, log, op, ret, fingers, args, fields, padding, twin>>

\* the counts and the maximum, total_confidence / len(self.detection_history),
\* and the return of detect_asl_letter
CallerReturn(t) ==
    /\ At(t, "average")
    /\ callers' = [callers EXCEPT
                      ![t].pc = "idle",
                      ![t].ret = StableOver(callers[t].seen, Len(detection_history))]
    /\ fields' = FieldsAfterDetect(fields, callers'[t].ret)
    /\ UNCHANGED <<detection_history, log, op, ret, fingers, args, padding, twin>>

NextConcurrent ==
    \E t \in Callers :
        \/ \E image \in SourceFrames : CallerAppend(t, image)
        \/ CallerCheck(t)
        \/ CallerPop(t)
        \/ CallerStable(t)
        \/ CallerIter(t)
        \/ CallerReturn(t)

SpecConcurrent == Init /\ [][NextConcurrent]_vars

\* the stages called directly on a detector that is also fed frames
SingleTipLists == { <<>> } \cup { <<tip>> : tip \in Tips }

\* a direct call of ASLLetterDetector._distinguish_a_or_d
Distinguish(finger_points) ==
    /\ args' = <<finger_points>>
    /\ ret' = DistinguishAOrD(finger_points)
    /\ op' = "_distinguish_a_or_d"
    /\ fingers' = NoFingers
    /\ UNCHANGED <<detection_history, log, callers, fields, padding, twin>>

\* a direct call of ASLLetterDetector._get_stable_detection
GetStable ==
    /\ args' = <<>>
    /\ ret' = GetStableDetection(detection_history)
    /\ op' = "_get_stable_detection"
    /\ fingers' = NoFingers
    /\ UNCHANGED <<detection_history, log, callers, fields, padding, twin>>

NextStages ==
    \/ \E image \in SourceFrames : DetectAslLetter(image)
    \/ \E image \in SourceFrames : DetectFingersCall(image)
    \/ \E finger_count \in Counts, finger_points \in SingleTipLists :
            Classify(finger_count, finger_points)
    \/ \E finger_points \in SingleTipLists : Distinguish(finger_points)
    \/ GetStable

SpecStages == Init /\ [][NextStages]_vars

\* a stream of frames without a hand (E, 0.7), with four tips (C, 0.6) and
\* with five (B, 0.8), and _get_stable_detection called on the window
WindowFrames ==
    { Image(<<>>), Image(<<Contour(20000, Keep(Cycle, 4))>>),
      Image(<<Contour(20000, Keep(Cycle, 5))>>) }

NextWindows ==
    \/ \E image \in WindowFrames : DetectAslLetter(image)
    \/ GetStable

SpecWindows == Init /\ [][NextWindows]_vars

\* a stream that goes on after the window has filled with frames of one
\* letter: frames without a hand (E, 0.7), with three tips (C, 0.7), with
\* four (C, 0.6) and with five (B, 0.8)
StreamFrames ==
    { Image(<<>>), Image(<<Contour(20000, Keep(Cycle, 3))>>),
      Image(<<Contour(20000, Keep(Cycle, 4))>>),
      Image(<<Contour(20000, Keep(Cycle, 5))>>) }

StreamResults == { PerFrame(Detected[image]) : image \in StreamFrames }

\* the windows that stable_frames calls on frames of one letter leave
WindowsOfOneLetter ==
    { h \in [1..stable_frames -> StreamResults] :
        \A i \in 1..stable_frames : h[i][1] = h[1][1] }

\* the detector after those stable_frames calls
InitStream ==
    /\ detection_history \in WindowsOfOneLetter
    /\ log = detection_history
    /\ op = "init"
    /\ ret = <<>>
    /\ fingers = NoFingers
    /\ args = <<>>
    /\ callers = [t \in Callers |-> Idle]
    /\ fields = Constructed
    /\ padding = NotPadding
    /\ twin = Fresh

\* the next frame of the stream
StreamFrame(image) ==
    /\ Len(log) < stable_frames + MaxStream
    /\ DetectAslLetterBody(image)
    /\ UNCHANGED twin

NextStream == \E image \in StreamFrames : StreamFrame(image)

SpecStream == InitStream /\ [][NextStream]_vars

\* detect_asl_letter on a second detector: the same code on its own window
TwinDetect(detector, image) ==
    LET f == Detected[image]
        result == PerFrame(f)
        history == PushHistory(detector.detection_history, result)
    IN  IF f.stage = "raised"
        THEN detector
        ELSE [detection_history |-> history,
              log |-> Append(detector.log, result),
              ret |-> GetStableDetection(history)]

\* two detectors side by side, each given its own next frame
DetectBoth(image, twin_image) ==
    /\ Len(log) < MaxTwinCalls
    /\ DetectAslLetterBody(image)
    /\ twin' = TwinDetect(twin, twin_image)

NextTwins == \E image \in SourceFrames, twin_image \in SourceFrames : DetectBoth(image, twin_image)

SpecTwins == Init /\ [][NextTwins]_vars

(***************************************************************************)
(* ImprovedHandDetector (src/model/improved_hand_detection.py)             *)
(***************************************************************************)
hand_min_contour_area == 10000
hand_max_contour_area == 100000
landmark_count == 21
MinLandmarks == 5
WristMargin == 50
MaxTips == 5
MaxValleys == 4
ValleyDepth == 10000

\* A landmark [x / columns, y / rows, 0.0] is held as <<x * Scale, y * Scale, 0>>:
\* its first coordinate counts units of 1 / (columns * Scale), its second
\* units of 1 / (rows * Scale), so that the 20 halvings the padding can
\* apply stay exact.
Scale == 2 ^ (landmark_count - 1)

Normalised(point, image_shape) == <<point[1] * Scale, point[2] * Scale, 0>>

\* [0.5, 0.5, 0.0]
Half(image_shape) ==
    <<(image_shape[2] * Scale) \div 2, (image_shape[1] * Scale) \div 2, 0>>

Midpoint(p1, p2) == <<(p1[1] + p2[1]) \div 2, (p1[2] + p2[2]) \div 2, 0>>

\* the vertices of the hull more than 50 pixels above the centre
HighVertices(hull, cy) == SelectSeq(hull, LAMBDA point : point[2] < cy - WristMargin)

RECURSIVE InsertByPixelX(_, _)
InsertByPixelX(p, sorted) ==
    IF sorted = <<>> THEN <<p>>
    ELSE IF p[1] < sorted[1][1]
         THEN <<p>> \o sorted
         ELSE <<sorted[1]>> \o InsertByPixelX(p, Tail(sorted))

RECURSIVE SortByPixelX(_)
SortByPixelX(tips) ==
    IF tips = <<>> THEN <<>>
    ELSE InsertByPixelX(tips[Len(tips)], SortByPixelX(SubSeq(tips, 1, Len(tips) - 1)))

Distance2(p, q) == (p[1] - q[1]) * (p[1] - q[1]) + (p[2] - q[2]) * (p[2] - q[2])

\* angle <= pi / 2 and d > 10000, the angle at `far` by the cosine rule; with
\* b or c zero the quotient is nan, and no comparison with nan holds
IsValley(defect) ==
    LET a2 == Distance2(defect.end, defect.start)
        b2 == Distance2(defect.far, defect.start)
        c2 == Distance2(defect.end, defect.far)
    IN  /\ b2 > 0
        /\ c2 > 0
        /\ b2 + c2 - a2 >= 0
        /\ defect.d > ValleyDepth

Valleys(defects) == SelectSeq(defects, IsValley)

NormaliseAll(points, image_shape) ==
    [i \in 1..Len(points) |-> Normalised(points[i], image_shape)]

\* The body of the try block down to the while loop. kind is "loop" when the
\* loop is reached with `landmarks`, "none" when the body returned None, and
\* "raise" when a statement raised: cv2.convexityDefects raises cv2.error on
\* a hull whose indices are not monotonous, and with m00 = 0 the name cy is
\* unbound when the loop over the hull reads it.
ExtractTry(contour, image_shape) ==
    IF contour.hull_error
    THEN [kind |-> "raise", cause |-> "cv2.error", landmarks |-> <<>>]
    ELSE IF contour.no_defects
    THEN [kind |-> "none", cause |-> "defects is None", landmarks |-> <<>>]
    ELSE IF contour.m00 = 0 /\ contour.hull # <<>>
    THEN [kind |-> "raise", cause |-> "UnboundLocalError", landmarks |-> <<>>]
    ELSE LET cx == contour.m10 \div contour.m00
             cy == contour.m01 \div contour.m00
             wrist == IF contour.m00 # 0 THEN <<Normalised(<<cx, cy>>, image_shape)>> ELSE <<>>
             finger_tips == IF contour.m00 # 0
                            THEN SortByPixelX(HighVertices(contour.hull, cy))
                            ELSE <<>>
             valleys == [i \in 1..Len(Valleys(contour.defects)) |->
                            Valleys(contour.defects)[i].far]
         IN  [kind |-> "loop", cause |-> "",
              landmarks |-> wrist \o NormaliseAll(Take(finger_tips, MaxTips), image_shape)
                                  \o NormaliseAll(Take(valleys, MaxValleys), image_shape)]

\* variant: without the except clause
ExtractFoundUncaught(contour, image_shape) == ExtractTry(contour, image_shape)

\* the try block with its handler: except Exception returns None
ExtractFound(contour, image_shape) ==
    LET body == ExtractTry(contour, image_shape)
    IN  IF body.kind = "raise" THEN [body EXCEPT !.kind = "none"] ELSE body

\* variant of the loop body: the last landmark overwritten by the midpoint
PadOneInPlace(landmarks, image_shape) ==
    LET n == Len(landmarks)
    IN  IF n >= 2
        THEN [landmarks EXCEPT ![n] = Midpoint(landmarks[n - 1], landmarks[n])]
        ELSE Append(landmarks, Half(image_shape))

\* one iteration of the while loop
PadOne(landmarks, image_shape) ==
    LET n == Len(landmarks)
    IN  IF n >= 2
        THEN Append(landmarks, Midpoint(landmarks[n - 1], landmarks[n]))
        ELSE Append(landmarks, Half(image_shape))

\* the negation of the loop condition len(landmarks) < 21
PaddingDone(landmarks) == ~(Len(landmarks) < landmark_count)

\* detect_hands down to the call of _extract_finger_landmarks
HandsStage(image) ==
    IF ~Convertible(image) THEN "raised"
    ELSE IF image.contours = <<>> THEN "no_contours"
    ELSE LET area == HandContour(image.contours).area
         IN  IF area < hand_min_contour_area \/ area > hand_max_contour_area
             THEN "area"
             ELSE "extract"

\* what a finished call leaves in `fingers`
HandsResult(kind, detected, stage, cause, found, landmarks) ==
    [kind |-> kind, detected |-> detected, stage |-> stage, cause |-> cause,
     found |-> found, landmarks |-> landmarks]

\* -- inputs
Defect(far, d) == [start |-> <<440, 80>>, end |-> <<376, 48>>, far |-> far, d |-> d]

\* a valley between two fingers, a dent that is not deep enough, and a dent
\* with an obtuse angle
DefectKinds ==
    { Defect(<<408, 200>>, ValleyDepth + 2000), Defect(<<408, 200>>, ValleyDepth),
      Defect(<<408, 70>>, ValleyDepth + 2000) }

DefectLists ==
    UNION { [1..n -> DefectKinds] : n \in 0..MaxDefects }
        \cup { [i \in 1..n |-> Defect(<<408, 200>>, ValleyDepth + 2000)] :
                 n \in 1..(MaxValleys + MaxDefects) }

HandOf(area, m00, hull, defects, no_defects, hull_error) ==
    [area |-> area, m00 |-> m00,
     m10 |-> 320 * m00 + m00 \div 2,
     m01 |-> 240 * m00 + m00 \div 4,
     hull |-> hull, defects |-> defects,
     no_defects |-> no_defects, hull_error |-> hull_error]

Hand(hull, defects) == HandOf(20000, 20000, hull, defects, FALSE, FALSE)

\* contours handed to _extract_finger_landmarks: hands with 0 to 7 high
\* vertices and the defect lists above, a hand without defects, a contour
\* whose hull indices are not monotonous, and contours without area
HandContours ==
    { Hand(Keep(Cycle, k), defects) : k \in 0..Len(UpperOrder), defects \in DefectLists }
        \cup { HandOf(20000, 20000, Keep(Cycle, 3), <<>>, TRUE, FALSE),
               HandOf(20000, 20000, Keep(Cycle, 3), <<>>, FALSE, TRUE),
               HandOf(0, 0, << <<100, 100>>, <<300, 100>> >>, <<>>, FALSE, FALSE),
               HandOf(0, 0, << <<100, 100>>, <<300, 100>> >>, <<>>, TRUE, FALSE) }

HandAreas ==
    { hand_min_contour_area - 1, hand_min_contour_area, 20000,
      hand_max_contour_area, hand_max_contour_area + 1 }

HandFrames ==
    { Image(<<>>) }
        \cup { Image(<<HandOf(a, a, Keep(Cycle, k), defects, FALSE, FALSE)>>) :
                 a \in HandAreas, k \in {0, 5}, defects \in [1..1 -> DefectKinds] \cup {<<>>} }
        \cup { Image(<<HandOf(20000, 20000, Keep(Cycle, 3), <<>>, TRUE, FALSE)>>),
               Image(<<HandOf(20000, 20000, Keep(Cycle, 3), <<>>, FALSE, TRUE)>>) }

\* -- actions
\* `ret` after a call of this detector: which value the call returned (or
\* "raise"), and the landmarks in it
Returned(what, landmarks) == <<what, landmarks>>

Running(arguments) ==
    /\ op' = "running"
    /\ args' = arguments
    /\ ret' = <<>>
    /\ fingers' = NoFingers

\* a direct call of _extract_finger_landmarks, down to its while loop
ExtractCall(contour) ==
    /\ padding.pc = "idle"
    /\ LET f == ExtractFound(contour, ImageShape)
       IN  IF f.kind = "loop"
           THEN /\ padding' = [pc |-> "while", caller |-> "_extract_finger_landmarks",
                               found |-> f.landmarks, landmarks |-> f.landmarks]
                /\ Running(<<contour, ImageShape>>)
           ELSE /\ op' = "_extract_finger_landmarks"
                /\ args' = <<contour, ImageShape>>
                /\ ret' = IF f.kind = "raise" THEN Returned("raise", <<>>)
                                              ELSE Returned("None", <<>>)
                /\ fingers' = HandsResult(f.kind, FALSE, "extract", f.cause, <<>>, <<>>)
                /\ UNCHANGED padding
    /\ UNCHANGED <<detection_history, log, callers, fields, twin>>

\* detect_hands, down to the while loop of _extract_finger_landmarks when it
\* gets that far
DetectHandsCall(image) ==
    /\ padding.pc = "idle"
    /\ LET stage == HandsStage(image)
           f == ExtractFound(HandContour(image.contours), image.shape)
       IN  IF stage = "extract" /\ f.kind = "loop"
           THEN /\ padding' = [pc |-> "while", caller |-> "detect_hands",
                               found |-> f.landmarks, landmarks |-> f.landmarks]
                /\ Running(<<image>>)
           ELSE /\ op' = "detect_hands"
                /\ args' = <<image>>
                /\ UNCHANGED padding
                /\ IF stage = "raised"
                   THEN /\ ret' = Returned("raise", <<>>)
                        /\ fingers' = HandsResult("raise", FALSE, stage, "cv2.error", <<>>, <<>>)
                   ELSE IF stage = "extract" /\ f.kind = "raise"
                   THEN /\ ret' = Returned("raise", <<>>)
                        /\ fingers' = HandsResult("raise", FALSE, stage, f.cause, <<>>, <<>>)
                   ELSE /\ ret' = Returned("(False, None)", <<>>)
                        /\ fingers' = HandsResult("none", FALSE, stage,
                                                  IF stage = "extract" THEN f.cause ELSE "",
                                                  <<>>, <<>>)
    /\ UNCHANGED <<detection_history, log, callers, fields, twin>>

\* while len(landmarks) < 21: one more landmark
PadStep ==
    /\ padding.pc = "while"
    /\ ~PaddingDone(padding.landmarks)
    /\ padding' = [padding EXCEPT !.landmarks = PadOne(@, ImageShape)]
    /\ UNCHANGED <<detection_history, log, op, ret, fingers, args, callers, fields, twin>>

\* return landmarks[:21], and in detect_hands the test of the list returned
PadReturn ==
    /\ padding.pc = "while"
    /\ PaddingDone(padding.landmarks)
    /\ LET landmarks == Take(padding.landmarks, landmark_count)
           detected == Len(landmarks) > 0 /\ Len(landmarks) >= MinLandmarks
       IN  /\ op' = padding.caller
           /\ ret' = IF padding.caller = "detect_hands"
                     THEN IF detected THEN Returned("(True, landmarks)", landmarks)
                                      ELSE Returned("(False, None)", <<>>)
                     ELSE Returned("landmarks", landmarks)
           /\ fingers' = HandsResult("list", padding.caller = "detect_hands" /\ detected,
                                     "extract", "", padding.found, landmarks)
    /\ padding' = NotPadding
    /\ UNCHANGED <<detection_history, log, args, callers, fields, twin>>

NextHands ==
    \/ \E contour \in HandContours : ExtractCall(contour)
    \/ \E image \in HandFrames \cup Malformed : DetectHandsCall(image)
    \/ PadStep
    \/ PadReturn

SpecHands == Init /\ [][NextHands]_vars

\* a call that is running goes on running
LiveHands == SpecHands /\ WF_vars(PadStep) /\ WF_vars(PadReturn)

(***************************************************************************)
(* Backend (src/backend/app.py)                                            *)
(***************************************************************************)
gestures == {"A", "B", "C", "D", "E"}

\* random.choice(gestures): any element
RandomChoice(population) == population

\* random.uniform(a, b) with a and b in hundredths: any value from a to b,
\* here the whole hundredths among them
RandomUniform(a, b) == { Pct(p) : p \in a..b }

\* detect_gesture_from_image(image): the values it can return; the image is
\* not read
DetectGestureFromImageResults(image) ==
    { <<gesture, confidence>> :
        gesture \in RandomChoice(gestures), confidence \in RandomUniform(60, 95) }

\* the body of a classify_landmarks response while no model is loaded (the
\* repository holds no saved model, so load_model leaves model = None)
ClassifyLandmarksPlaceholder(landmarks) == <<"A", Pct(85)>>

\* decoded images handed to detect_gesture_from_image
AppImages == { Image(<<>>), Image(<<Contour(20000, Keep(Cycle, 5))>>) }

DetectGestureFromImage(image) ==
    /\ \E result \in DetectGestureFromImageResults(image) : ret' = result
    /\ args' = <<image>>
    /\ op' = "detect_gesture_from_image"
    /\ fingers' = NoFingers
    /\ UNCHANGED <<detection_history, log, callers, fields, padding, twin>>

ClassifyLandmarks(landmarks) ==
    /\ ret' = ClassifyLandmarksPlaceholder(landmarks)
    /\ args' = <<landmarks>>
    /\ op' = "classify_landmarks"
    /\ fingers' = NoFingers
    /\ UNCHANGED <<detection_history, log, callers, fields, padding, twin>>

NextApp ==
    \/ \E image \in AppImages : DetectGestureFromImage(image)
    \/ \E landmarks \in TipLists : ClassifyLandmarks(landmarks)

SpecApp == Init /\ [][NextApp]_vars

(***************************************************************************)
(* The route /api/detect-gesture of src/backend/app.py and of              *)
(* src/backend/simple_app.py                                               *)
(***************************************************************************)
\* A POST request: whether it carries a JSON object, whether the object has
\* the key 'image', and what the value is: the base64 text of an image, the
\* base64 text of bytes that are no image, text that is not base64, or a
\* number.
ImageValues == {"image", "not_an_image", "not_base64", "number"}

Requests ==
    { [json |-> FALSE, has_image |-> FALSE, image |-> ""],
      [json |-> TRUE, has_image |-> FALSE, image |-> ""] }
        \cup { [json |-> TRUE, has_image |-> TRUE, image |-> v] : v \in ImageValues }

\* request.get_json() of a request without a JSON body: None, or an HTTP
\* exception, depending on the version of Flask
GetJsonOutcomes(request) == IF request.json THEN {"data"} ELSE {"None", "raise"}

ErrorResponse(status, error) ==
    [status |-> status, error |-> error, gesture |-> "", confidence |-> 0]

Detection(result) ==
    [status |-> 200, error |-> "", gesture |-> result[1], confidence |-> result[2]]

\* app.py: what base64.b64decode, np.frombuffer and cv2.imdecode make of the
\* value: an exception (str methods on a number, binascii.Error), None, or
\* an image
Decoded(value) ==
    CASE value = "number" -> "raise"
      [] value = "not_base64" -> "raise"
      [] value = "not_an_image" -> "None"
      [] OTHER -> "image"

\* the responses detect_gesture of app.py can give
AppDetectGestureResponses(request) ==
    UNION { IF got = "raise"
            THEN { ErrorResponse(500, "Detection failed") }
            ELSE IF got = "None" \/ ~request.has_image
            THEN { ErrorResponse(400, "No image data provided") }
            ELSE IF Decoded(request.image) = "raise"
            THEN { ErrorResponse(500, "Detection failed") }
            ELSE IF Decoded(request.image) = "None"
            THEN { ErrorResponse(400, "Invalid image data") }
            ELSE { Detection(result) :
                     result \in DetectGestureFromImageResults(request.image) }
          : got \in GetJsonOutcomes(request) }

\* the responses detect_gesture of simple_app.py can give: the value of
\* 'image' is not read
SimpleAppDetectGestureResponses(request) ==
    UNION { IF got = "raise"
            THEN { ErrorResponse(500, "Detection failed") }
            ELSE IF got = "None" \/ ~request.has_image
            THEN { ErrorResponse(400, "No image data provided") }
            ELSE { Detection(<<gesture, confidence>>) :
                     gesture \in RandomChoice(gestures),
                     confidence \in RandomUniform(60, 95) }
          : got \in GetJsonOutcomes(request) }

AppDetectGesture(request) ==
    /\ \E response \in AppDetectGestureResponses(request) : ret' = response
    /\ args' = <<request>>
    /\ op' = "app.detect_gesture"
    /\ fingers' = NoFingers
    /\ UNCHANGED <<detection_history, log, callers, fields, padding, twin>>

SimpleAppDetectGesture(request) ==
    /\ \E response \in SimpleAppDetectGestureResponses(request) : ret' = response
    /\ args' = <<request>>
    /\ op' = "simple_app.detect_gesture"
    /\ fingers' = NoFingers
    /\ UNCHANGED <<detection_history, log, callers, fields, padding, twin>>

NextApi ==
    \/ \E request \in Requests : AppDetectGesture(request)
    \/ \E request \in Requests : SimpleAppDetectGesture(request)

SpecApi == Init /\ [][NextApi]_vars

(***************************************************************************)
(* Properties                                                              *)
(***************************************************************************)
Letters == {"A", "B", "C", "D", "E", "Unknown"}

RECURSIVE Times(_, _)
\* how many entries of window w carry label X
Times(w, X) ==
    IF w = <<>> THEN 0
    ELSE (IF w[1][1] = X THEN 1 ELSE 0) + Times(Tail(w), X)

RECURSIVE SumConfidence(_, _, _)
\* the sum of the confidences of entries from..to of s
SumConfidence(s, from, to) ==
    IF from > to THEN 0 ELSE s[from][2] + SumConfidence(s, from + 1, to)

Calls == Len(log)
Detected5 == op = "detect_asl_letter" /\ Len(detection_history) = 5
LastResult == log[Len(log)]

\* C1: with a full window of 5, a label carried by 3 (or more) entries is the
\* stable label, whatever the order of the entries, and when no label is
\* carried by 3 entries (such as a 2 / 2 / 1 split) the result is (None, 0.0).
C1_ThresholdBoundary ==
    Detected5 =>
        /\ \A X \in Letters : Times(detection_history, X) >= 3 => ret[1] = X
        /\ (\A X \in Letters : Times(detection_history, X) < 3) => ret = <<None, 0>>

C1_Witness ==
    /\ Detected5
    /\ \E X, Y \in Letters :
            /\ X # Y
            /\ Times(detection_history, X) = 3
            /\ Times(detection_history, Y) = 2
            /\ detection_history[1][1] = Y
            /\ ret[1] = X

\* C2: each of the first 4 calls of detect_asl_letter on a fresh detector
\* returns (None, 0.0); a label is returned from the 5th call on only, and a
\* full window in which no label occurs 3 times gives (None, 0.0).
C2_NoneUntilFull ==
    op = "detect_asl_letter" =>
        /\ Calls <= 4 => ret = <<None, 0>>
        /\ ret[1] # None => Calls >= 5
        /\ (Len(detection_history) = 5
              /\ \A X \in Letters : Times(detection_history, X) < 3) => ret = <<None, 0>>

C2_Witness ==
    /\ op = "detect_asl_letter"
    /\ Calls = 4
    /\ \A i \in 1..4 : log[i] = <<"B", Pct(80)>>
    /\ ret = <<None, 0>>

\* C3: when the first 5 calls on a fresh detector all produce the same
\* per-frame result (L, c), the 5th call returns exactly (L, c).
C3_FiveIdentical ==
    (op = "detect_asl_letter" /\ Calls = 5 /\ \A i \in 1..5 : log[i] = log[1])
        => ret = log[1]

C3_Witness ==
    /\ op = "detect_asl_letter"
    /\ Calls = 5
    /\ \A i \in 1..5 : log[i] = <<"C", Pct(60)>>
    /\ ret = <<"C", Pct(60)>>

\* C4: whenever a stable label is returned, the returned confidence is the
\* arithmetic mean of the confidences of all 5 entries of the window, the
\* entries of other labels included.
C4_MeanOfWholeWindow ==
    (op = "detect_asl_letter" /\ ret[1] # None) =>
        /\ Calls >= 5
        /\ ret[2] * 5 = SumConfidence(log, Calls - 4, Calls)

C4_Witness ==
    /\ op = "detect_asl_letter"
    /\ ret = <<"B", Pct(72)>>
    /\ Times(detection_history, "B") = 3
    /\ Times(detection_history, "C") = 2

\* C5: the detection history holds at most 5 entries, and they are the
\* per-frame results of the most recent min(n, 5) calls in arrival order.
C5_WindowIsLastFive ==
    /\ Len(detection_history) <= 5
    /\ Len(detection_history) = (IF Calls < 5 THEN Calls ELSE 5)
    /\ \A i \in 1..Len(detection_history) :
            detection_history[i] = log[Calls - Len(detection_history) + i]

C5_Witness ==
    /\ op = "detect_asl_letter"
    /\ Calls = 6
    /\ log[1] # log[2]
    /\ log[1] # log[6]
    /\ detection_history = SubSeq(log, 2, 6)

\* C6: the window is never cleared or shortened by a call: its length never
\* decreases from one call to the next, and once it is 5 it stays 5.
C6_NeverShortened ==
    [][/\ Len(detection_history') >= Len(detection_history)
       /\ Len(detection_history) = 5 => Len(detection_history') = 5]_vars

C6_Witness ==
    /\ op = "detect_asl_letter"
    /\ Calls = 6
    /\ Len(detection_history) = 5

\* C7: the classifier follows the decision table on the finger count alone:
\* 0 gives E with confidence within [0.70, 0.80], 2 gives (C, 0.6), 3 gives
\* (C, 0.7), 4 gives (C, 0.6), 5 gives (B, 0.8), whatever the tip positions;
\* detect_letter follows the same table on the number of points detected
\* and reports E within [0.70, 0.80] when no fingers are detected.
Table(finger_count, letter, confidence) ==
    /\ finger_count = 0 => letter = "E" /\ confidence >= Pct(70) /\ confidence <= Pct(80)
    /\ finger_count = 2 => letter = "C" /\ confidence = Pct(60)
    /\ finger_count = 3 => letter = "C" /\ confidence = Pct(70)
    /\ finger_count = 4 => letter = "C" /\ confidence = Pct(60)
    /\ finger_count = 5 => letter = "B" /\ confidence = Pct(80)

C7_DecisionTable ==
    /\ op = "_classify_by_finger_count" => Table(args[1], ret[1], ret[2])
    /\ op = "detect_letter" =>
            Table(IF fingers.detected THEN Len(fingers.points) ELSE 0, ret[1], ret[2])

C7_Witness ==
    /\ op = "_classify_by_finger_count"
    /\ args[1] = 4
    /\ Len(args[2]) = 1
    /\ ret = <<"C", Pct(60)>>

\* C8: for finger count 1 and a tip list with a first tip, the classifier
\* returns (A, 0.7) when the x of the first tip is strictly below 0.4 and
\* (D, 0.7) otherwise; x = 0.4 gives D, x = 0.1 gives A, x = 0.9 gives D.
C8_ThumbOrIndex ==
    (op = "_classify_by_finger_count" /\ args[1] = 1 /\ args[2] # <<>>) =>
        LET x == args[2][1][1]
        IN  /\ ret = (IF x[1] * 10 < 4 * x[2] THEN <<"A", Pct(70)>> ELSE <<"D", Pct(70)>>)
            /\ x = Frac(4, 10) => ret[1] = "D"
            /\ x = Frac(1, 10) => ret[1] = "A"
            /\ x = Frac(9, 10) => ret[1] = "D"

C8_Witness ==
    /\ op = "_classify_by_finger_count"
    /\ args[1] = 1
    /\ args[2] # <<>>
    /\ args[2][1][1] = Frac(4, 10)
    /\ ret = <<"D", Pct(70)>>

\* C9: for a finger count below 0 or above 5 the classifier returns
\* (Unknown, 0.0).
C9_UnknownOutsideRange ==
    (op = "_classify_by_finger_count" /\ (args[1] < 0 \/ args[1] > 5))
        => ret = <<"Unknown", 0>>

C9_Witness ==
    /\ op = "_classify_by_finger_count"
    /\ args[1] > 5
    /\ args[2] # <<>>
    /\ ret = <<"Unknown", 0>>

\* C10: when a frame yields no qualifying tip, the number of tips is 0, no
\* fingers are reported and the per-frame classification is E with a
\* confidence within [0.70, 0.80].
C10_FistInvariant ==
    (op = "detect_asl_letter" /\ Len(fingers.tips) = 0) =>
        /\ ~fingers.detected
        /\ LastResult[1] = "E"
        /\ LastResult[2] >= Pct(70)
        /\ LastResult[2] <= Pct(80)

C10_Witness ==
    /\ op = "detect_asl_letter"
    /\ fingers.stage = "tips"
    /\ fingers.tips = <<>>
    /\ LastResult = <<"E", Pct(70)>>

NoHandFound ==
    /\ op = "detect_asl_letter"
    /\ \/ fingers.stage = "small_area"
       \/ fingers.stage = "tips" /\ Len(fingers.tips) < 3

\* C11 as stated: when the largest contour is rejected for its area, or
\* fewer than 3 tips are found, the per-frame classification is (None, 0).
C11_NoHandIsNone ==
    NoHandFound => LastResult = <<None, 0>>

\* C11, amended: when the largest contour is rejected for an area below
\* min_contour_area, or fewer than 3 tips are found, detect_fingers reports
\* no detection and the per-frame classification is (E, 0.7); that entry is
\* the one appended to the window.
C11_NoHandIsFist ==
    NoHandFound =>
        /\ ~fingers.detected
        /\ LastResult = <<"E", Pct(70)>>
        /\ detection_history[Len(detection_history)] = <<"E", Pct(70)>>

C11_Witness ==
    /\ op = "detect_asl_letter"
    /\ fingers.stage = "small_area"
    /\ fingers.area = 1
    /\ LastResult = <<"E", Pct(70)>>

\* C12: every contour that detect_fingers hands to _find_finger_tips has an
\* area within [min_contour_area, max_contour_area], and a largest contour
\* above max_contour_area yields no detection.
C12_AreaBand ==
    op = "detect_asl_letter" =>
        /\ fingers.stage = "tips" =>
                fingers.area >= min_contour_area /\ fingers.area <= max_contour_area
        /\ fingers.area > max_contour_area => ~fingers.detected

BackendResult == op \in {"detect_gesture_from_image", "classify_landmarks"}

\* C13: every confidence the system reports lies in [0, 1] and none exceeds
\* 0.85; stated here for the results of the gesture-detection and the
\* landmark-classification entry points.
C13_ConfidenceCap ==
    BackendResult => ret[2] >= 0 /\ ret[2] <= Pct(85)

\* C14: for a fixed frame the pipeline returns identical results on repeated
\* calls; stated here for two successive calls of the same entry point of the
\* backend with the same argument.
C14_Deterministic ==
    [][(BackendResult /\ op' = op /\ args' = args) => ret' = ret]_vars

\* a frame whose largest contour has area 20000 and exactly 5 qualifying
\* hull vertices was the input of the call
OpenHandFrame ==
    /\ op = "detect_asl_letter"
    /\ fingers.stage = "tips"
    /\ fingers.area = 20000
    /\ fingers.qualifying = 5

\* C15: a frame whose largest contour has area 20000 and exactly 5
\* qualifying hull vertices is classified (B, 0.80); once 5 or more calls
\* have all produced (B, 0.80), the stabilized result is (B, 0.80), on the
\* 5th call and on every later one.
C15_EndToEnd ==
    /\ OpenHandFrame => LastResult = <<"B", Pct(80)>>
    /\ (op = "detect_asl_letter" /\ Calls >= 5
            /\ \A i \in 1..Calls : log[i] = <<"B", Pct(80)>>)
        => ret = <<"B", Pct(80)>>

C15_Witness ==
    /\ OpenHandFrame
    /\ Calls = 6
    /\ \A i \in 1..Calls : log[i] = <<"B", Pct(80)>>
    /\ ret = <<"B", Pct(80)>>

FoundTips == op = "_find_finger_tips"

\* vertex p of the hull of contour c qualifies: farther than 50 pixels from
\* the centre (the centroid in whole pixels) and above it
Qualifies(c, p) ==
    LET cx == c.m10 \div c.m00
        cy == c.m01 \div c.m00
    IN  /\ c.m00 # 0
        /\ (p[1] - cx) * (p[1] - cx) + (p[2] - cy) * (p[2] - cy) > 2500
        /\ p[2] < cy

TipOf(p, shape) == <<Frac(p[1], shape[2]), Frac(p[2], shape[1]), 0>>

QualifyingVertices(c) == { j \in 1..Len(c.hull) : Qualifies(c, c.hull[j]) }

\* C16: every tip returned by _find_finger_tips is the normalised position
\* of a hull vertex that is strictly farther than 50 pixels from the centre
\* and strictly above it.
C16_TipsQualify ==
    FoundTips =>
        \A i \in 1..Len(ret) :
            \E j \in 1..Len(args[1].hull) :
                /\ ret[i] = TipOf(args[1].hull[j], args[2])
                /\ Qualifies(args[1], args[1].hull[j])

C16_Witness ==
    /\ FoundTips
    /\ args[1].hull = Kite(51)
    /\ ret = << TipOf(<<320, 189>>, ImageShape) >>

\* C17: the tip list is sorted by non-decreasing x and has min(q, 5)
\* entries, q being the number of qualifying vertices; when more than 5
\* qualify, no vertex left out lies to the left of one retained.
C17_SortedAndCapped ==
    FoundTips =>
        LET c == args[1]
            q == Cardinality(QualifyingVertices(c))
        IN  /\ Len(ret) <= 5
            /\ Len(ret) = (IF q < 5 THEN q ELSE 5)
            /\ \A i \in 1..(Len(ret) - 1) : ~FracLess(ret[i + 1][1], ret[i][1])
            /\ \A j \in QualifyingVertices(c) :
                    \/ \E i \in 1..Len(ret) : ret[i] = TipOf(c.hull[j], args[2])
                    \/ \A i \in 1..Len(ret) : ret[i][1][1] <= c.hull[j][1]

C17_Witness ==
    /\ FoundTips
    /\ Cardinality(QualifyingVertices(args[1])) = 7
    /\ Len(ret) = 5
    /\ ret[5] = TipOf(<<376, 48>>, ImageShape)

\* C18: a malformed or empty frame makes detect_fingers and
\* detect_asl_letter return a result of no detection; no exception reaches
\* the caller.
C18_FailClosed ==
    op \in {"detect_fingers", "detect_asl_letter"} => fingers.stage # "raised"

\* the per-frame classification of a frame for which _find_finger_tips
\* returned tips (detect_fingers lines 56-59, detect_asl_letter lines 44-51)
PerFrameOfTips(tips) == PerFrame([detected |-> Len(tips) >= 3, points |-> tips])

DegenerateCall == FoundTips /\ args[1].m00 = 0

\* C19 as stated: a contour with m00 = 0 surfaces as per-frame label Unknown
\* with confidence 0.
C19_DegenerateIsUnknown ==
    DegenerateCall => PerFrameOfTips(ret) = <<"Unknown", 0>>

\* C19, amended: for a contour with m00 = 0, _find_finger_tips returns the
\* empty tip list without raising, and a frame with that tip list is
\* classified (E, 0.7).
C19_DegenerateIsEmpty ==
    DegenerateCall =>
        /\ ret = <<>>
        /\ PerFrameOfTips(ret) = <<"E", Pct(70)>>

C19_Witness ==
    /\ DegenerateCall
    /\ Len(args[1].hull) = 2
    /\ ret = <<>>

\* --------------------------------------------------------------------- C20
\* a thread is inside _get_stable_detection
InStableDetection(t) == callers[t].pc \in {"stable", "iter", "average"}

\* a thread has appended its entry and has not yet finished the check and
\* the pop that follow the append
BetweenAppendAndPop(t) == callers[t].pc \in {"check", "pop"}

\* C20: with two threads in detect_asl_letter on one detector, whenever the
\* window holds more than 5 entries while a thread is computing its stable
\* detection, it holds exactly 6 entries and the other thread stands
\* between its append and its pop; so a thread that calls alone never
\* computes a stable detection over more than 5 entries, and no stable
\* detection reads more than 6.
C20_OverfullOnlyWhenInterleaved ==
    \A t \in Callers :
        InStableDetection(t) =>
            /\ Len(callers[t].seen) <= stable_frames + 1
            /\ Len(detection_history) > stable_frames =>
                  /\ Len(detection_history) = stable_frames + 1
                  /\ \E u \in Callers \ {t} : BetweenAppendAndPop(u)

\* a thread has returned a stable letter that it computed over 6 entries,
\* more than the window may hold
C20_Witness ==
    \E t \in Callers :
        /\ callers[t].pc = "idle"
        /\ Len(callers[t].seen) = stable_frames + 1
        /\ callers[t].ret[1] # None

\* --------------------------------------------------------------------- C21
\* C21: no call of detect_fingers, _classify_by_finger_count,
\* _distinguish_a_or_d, _get_stable_detection or detect_asl_letter changes
\* an attribute set by the constructors, and only detect_asl_letter changes
\* detection_history.
C21_OnlyWindowChanges ==
    [][/\ fields' = fields
       /\ op' # "detect_asl_letter" => detection_history' = detection_history]_vars

\* a stage was called directly on a detector whose window is full, and the
\* attributes are those of the constructor
C21_Witness ==
    /\ op \in {"detect_fingers", "_classify_by_finger_count",
               "_distinguish_a_or_d", "_get_stable_detection"}
    /\ Len(detection_history) = stable_frames
    /\ Len(log) > stable_frames
    /\ fields = Constructed

\* --------------------------------------------------------------------- C22
\* C22: _classify_by_finger_count called with a finger count of 1 and an
\* empty tip list returns Unknown with confidence 0.
C22_EmptyTipsIsUnknown ==
    (op = "_classify_by_finger_count" /\ args[1] = 1 /\ args[2] = <<>>) =>
        ret = <<"Unknown", 0>>

\* --------------------------------------------------------------------- C23
\* the list is `found` followed by the landmarks of the padding: each the
\* midpoint of the two before it, or [0.5, 0.5, 0.0] when fewer than two
\* are before it
PaddedFrom(found, landmarks) ==
    /\ Len(landmarks) = landmark_count
    /\ Len(found) <= landmark_count
    /\ \A i \in 1..Len(found) : landmarks[i] = found[i]
    /\ \A i \in (Len(found) + 1)..landmark_count :
          landmarks[i] = IF i >= 3
                         THEN Midpoint(landmarks[i - 2], landmarks[i - 1])
                         ELSE Half(ImageShape)

ListsHave21 ==
    /\ (op = "_extract_finger_landmarks" /\ fingers.kind = "list") =>
          PaddedFrom(fingers.found, fingers.landmarks)
    /\ (op = "detect_hands" /\ fingers.kind # "raise") =>
          \/ ~fingers.detected /\ fingers.kind = "none"
          \/ /\ fingers.detected
             /\ fingers.kind = "list"
             /\ PaddedFrom(fingers.found, fingers.landmarks)

C24_FailuresReturnNone ==
    (op \in {"_extract_finger_landmarks", "detect_hands"} /\ fingers.stage = "extract") =>
        /\ fingers.kind # "raise"
        /\ fingers.cause # "" => (fingers.kind = "none" /\ ~fingers.detected)

\* detect_hands passed the area check, cv2.convexityDefects raised, and the
\* call returned (False, None)
C24_Witness ==
    /\ op = "detect_hands"
    /\ fingers.stage = "extract"
    /\ fingers.cause = "cv2.error"
    /\ fingers.kind = "none"

\* --------------------------------------------------------------------- C25
\* the request has no JSON body, or no 'image', or a value of 'image' that
\* is no encoded image
BadRequest(request) == ~request.json \/ ~request.has_image \/ request.image # "image"

\* C25: a detect-gesture request without body, without 'image', or with
\* image data that cannot be decoded gets status 400 or 500 with an error,
\* and no gesture.
C25_BadInputRejected ==
    (op \in {"app.detect_gesture", "simple_app.detect_gesture"} /\ BadRequest(args[1])) =>
        /\ ret.status \in {400, 500}
        /\ ret.error # ""
        /\ ret.gesture = ""

\* --------------------------------------------------------------------- C26
FrameLabels == {"E", "C", "B"}

C27_DetectorsAgree ==
    op = "detect_letter" =>
        /\ ret[1] = PerFrame(fingers)[1]
        /\ fingers.detected => ret[2] = PerFrame(fingers)[2]
        /\ ~fingers.detected => (ret[2] = Pct(80) /\ PerFrame(fingers)[2] = Pct(70))

\* detect_letter was called on a frame in which no fingers were detected
\* although a hand contour of sufficient area was found
C27_Witness ==
    /\ op = "detect_letter"
    /\ ~fingers.detected
    /\ fingers.stage = "tips"
    /\ ret[1] = "E"

\* --------------------------------------------------------------------- C28
\* the window with its entries in the order p
Permuted(h, p) == [i \in 1..Len(h) |-> h[p[i]]]

WindowOrders == Permutations(1..stable_frames)

\* a stable detection was computed on a full window
StableOnFullWindow ==
    /\ op \in {"detect_asl_letter", "_get_stable_detection"}
    /\ Len(detection_history) = stable_frames

\* C28 as stated: every permutation of the 5 entries of the window gives the
\* same stable label and the same stable confidence.
C28_PermutationSameResult ==
    StableOnFullWindow =>
        LET stable == FloatStableDetection(detection_history)
        IN  \A p \in WindowOrders :
                FloatStableDetection(Permuted(detection_history, p)) = stable

\* C28, amended: in a full window at most one label occurs 3 times or more,
\* and every permutation of its 5 entries gives the same stable label and a
\* stable confidence at most 2 units of 2^-53 away.
C28_PermutationSameLabel ==
    StableOnFullWindow =>
        /\ Cardinality({ letter \in Letters :
                           LetterCount(detection_history, letter) * 10 >= stable_frames * 6 }) <= 1
        /\ LET stable == FloatStableDetection(detection_history)
           IN  \A p \in WindowOrders :
                   LET permuted == FloatStableDetection(Permuted(detection_history, p))
                   IN  /\ permuted[1] = stable[1]
                       /\ FloatGap(stable[2], permuted[2]) \in -2..2

\* a full window gave a stable letter, and its entries in another order
\* give another double for the confidence
C28_Witness ==
    /\ StableOnFullWindow
    /\ LET stable == FloatStableDetection(detection_history)
       IN  /\ stable[1] # None
           /\ \E p \in WindowOrders :
                  FloatStableDetection(Permuted(detection_history, p))[2] # stable[2]

\* the letters of a sequence of per-frame results
LettersOf(h) == { h[i][1] : i \in 1..Len(h) }

\* the frames of the stream since the window filled
Streamed == SubSeq(log, stable_frames + 1, Len(log))

\* C29: when the window is full of frames of one letter X and only frames of
\* another letter Y follow, the stable letter is X for the first two of them
\* and Y from the third on, never None; and a full window that holds at most
\* two distinct letters never gives None
C29_Debounced ==
    op = "detect_asl_letter" =>
        /\ \A X \in LettersOf(SubSeq(log, 1, stable_frames)), Y \in LettersOf(Streamed) :
                (LettersOf(Streamed) = {Y} /\ Y # X) =>
                    ret[1] = IF Len(Streamed) <= 2 THEN X ELSE Y
        /\ (Len(detection_history) = stable_frames
                /\ Cardinality(LettersOf(detection_history)) <= 2) => ret[1] # None

\* eight calls: five frames of B, then three of C, and the third one returns C
C29_Witness ==
    /\ op = "detect_asl_letter"
    /\ Len(log) = stable_frames + 3
    /\ LettersOf(SubSeq(log, 1, stable_frames)) = {"B"}
    /\ LettersOf(Streamed) = {"C"}
    /\ ret[1] = "C"
    /\ LetterCount(detection_history, "B") = 2

\* the per-frame results of the stable_frames most recent calls
Recent(results) == SubSeq(results, Len(results) - stable_frames + 1, Len(results))

\* C30: two detectors whose last five per-frame results are the same return
\* the same stable label and confidence, whatever frames they were given
\* before; the confidence is the same double as well
C30_OnlyLastFiveMatter ==
    (/\ op = "detect_asl_letter"
     /\ Len(log) >= stable_frames
     /\ Len(twin.log) >= stable_frames
     /\ Recent(log) = Recent(twin.log)) =>
        /\ ret = twin.ret
        /\ FloatStableDetection(detection_history) = FloatStableDetection(twin.detection_history)

\* six calls each: the first frames differ and have been evicted, the last
\* five are the same, and both return the same letter
C30_Witness ==
    /\ op = "detect_asl_letter"
    /\ Len(log) = stable_frames + 1
    /\ Len(twin.log) = stable_frames + 1
    /\ log[1] # twin.log[1]
    /\ Recent(log) = Recent(twin.log)
    /\ ret[1] # None
    /\ ret = twin.ret

====
